---- MODULE Spec2Model ----
(***************************************************************************)
(* Velocitas HFT engine: the concurrent execution core.                    *)
(*                                                                         *)
(*   Market Data Source -> producer -> bounded queue -> dispatcher         *)
(*     -> worker pool (parallel evaluations) -> result collection          *)
(*     -> shared state store (one global lock) -> snapshot reader          *)
(*                                                                         *)
(* The Python engine (engine_core.py) is described by the repository's     *)
(* design documents; the model follows them and the specification.         *)
(*                                                                         *)
(* The React frontend is modelled from its source: the live dashboard's    *)
(* controls and its useWebSocket hook, the WebSocketProvider with its      *)
(* listeners, the trade history view and the optimization view.            *)
(***************************************************************************)
EXTENDS Integers, Sequences, FiniteSets, TLC

(***************************************************************************)
(* Bounds of the model.                                                    *)
(***************************************************************************)
MaxTicks == 3
QueueCapacity == 2
MaxIntents == 2
MaxErrors == 1
MaxRetries == 1
MaxMessages == 3
MaxSockets == 6
MaxRenders == 2
MaxUploads == 3

Workers == {"w1", "w2"}
Instruments == {"BTC", "ETH"}
StrategyIds == {"BTC_SMA", "BTC_Momentum"}
ControlledIds == {"BTC_SMA"}

(* strategy_id = f"{coin}_{strategy_name}": both strategies trade BTC, so an *)
(* ETH tick matches neither                                                *)
InstrumentOf(s) == "BTC"

(* the order in which the dispatcher walks the strategies dict *)
DictOrder(s) == IF s = "BTC_SMA" THEN 1 ELSE 2

(* the feed: the price of the n-th tick alternates between two levels, so  *)
(* that a position can be closed above and below its entry price           *)
PriceAt(n) == IF n % 2 = 0 THEN 8 ELSE 4

NoHolder == "none"
SnapshotReader == "snapshot"
NoTick == [instrumentId |-> "-", price |-> 0, timestamp |-> 0]
NoTask == [strategyId |-> "-", tick |-> NoTick]
NoIntent == [action |-> "None", quantity |-> 0]
Outcomes == {"None", "Buy", "Sell", "Throw"}

ZeroMetrics ==
  [totalTrades |-> 0, winningTrades |-> 0, losingTrades |-> 0,
   grossProfit |-> 0, grossLoss |-> 0, netPnL |-> 0]
Flat == [size |-> 0, entryPrice |-> 0]
NoLocal == [intent |-> NoIntent, pnl |-> 0, g |-> ZeroMetrics, m |-> ZeroMetrics]
NoSnapshot == [taken |-> FALSE]

(* new WebSocket(wsUrl) *)
NewSocket == [readyState |-> "CONNECTING", inbox |-> <<>>]

(* WebSocketProvider after its effect has run: mounted = true, connect()   *)
(* has created the first socket; attempts counts the closes since the last *)
(* open                                                                    *)
ProviderMounted ==
  [mounted |-> TRUE, connected |-> FALSE, reconnectRef |-> 0, wsRef |-> 1,
   timers |-> <<>>, attempts |-> 0]

(* the functions given to addListener: one per render of the trade history *)
(* view (useWsMessages is called with a new arrow function each render)    *)
(* and the callback of another subscriber, which throws                    *)
Handlers == 1..MaxRenders
Other == MaxRenders + 1
Functions == Handlers \cup {Other}
NoHandler == 0

(* TradeHistoryDashboard before it is shown *)
NotMounted ==
  [mounted |-> FALSE, renders |-> 0, handler |-> NoHandler, trades |-> <<>>,
   seen |-> {}]
NoRequest == [state |-> "none", body |-> 0]
NoBody == -1

(* the files offered to the optimization view: dropped, browsed, sample *)
Files == {"dropped.csv", "browsed.csv", "sample_data.csv"}
NoFile == "null"

(* OptimizationDashboard as first rendered *)
NothingUploaded ==
  [isFileUploaded |-> FALSE, fileName |-> NoFile, uploadStatus |-> NoFile,
   inFlight |-> {}, started |-> 0, succeeded |-> {}, backtests |-> 0]

(* what a socket may receive: a JSON text or a text JSON.parse rejects *)
MessageKinds == {"json", "garbage"}

(* useWebSocket after its effect has run: new WebSocket(url), wsRef set *)
HookMounted ==
  [mounted |-> TRUE, readyState |-> "CONNECTING", wsRef |-> "ws",
   timer |-> FALSE, inbox |-> <<>>, handled |-> 0]

VARIABLES
  produced,      \* ticks pushed so far; the tick clock
  queue,         \* the bounded queue between producer and dispatcher
  popped,        \* ticks the dispatcher has taken
  dispTick,      \* the tick being dispatched
  dispPending,   \* matching strategies still to be submitted for dispTick;
                 \* the dispatcher takes the next tick when none is left
  taskQ,         \* evaluation tasks submitted to the pool, not yet taken
  pc,            \* per worker position
  task,          \* per worker current task
  loc,           \* per worker local values of the running recordTrade
  registry,      \* strategyId -> "Unregistered" | "Active" | "Paused"
  position,      \* strategyId -> [size, entryPrice]
  global,        \* GlobalMetrics
  strat,         \* strategyId -> StrategyMetrics
  trades,        \* trade history
  errorCount,    \* strategyId -> evaluation errors
  lock,          \* holder of the global lock
  snapPc,        \* snapshot reader: "idle" | "copied"
  snap,          \* the copy readSnapshot is returning
  recordCalls,   \* history: recordTrade calls made
  lastSubmitted, \* history: strategyId -> timestamp of its last submitted task
  engine,        \* "Running" | "Stopping" | "Stopped" | "Error"
  retries,       \* consecutive failed reads of the market data source
  rowStatus,     \* dashboard: status shown in the live table, for the rows of
                 \* the strategies the controls are used on
  hook,          \* useWebSocket of the live dashboard: its socket, wsRef, timer
  provider,      \* WebSocketProvider: mounted, connected, reconnectRef, wsRef, timers
  sockets,       \* the WebSocket objects the provider created, in creation order
  sent,          \* events broadcast by the server on /ws/metrics so far
  listeners,     \* listenersRef.current: the registered functions, in insertion order
  got,           \* history: listener -> ids of the events it was called with
  component,     \* TradeHistoryDashboard: mounted, handler of the last render, trades
  request,       \* its fetchInitialTrades call
  upload         \* OptimizationDashboard: isFileUploaded, fileName, uploadStatus,
                 \* the uploads in flight, and history of what succeeded

vars == <<produced, queue, popped, dispTick, dispPending, taskQ, pc, task,
          loc, registry, position, global, strat, trades, errorCount, lock,
          snapPc, snap, recordCalls, lastSubmitted, engine, retries, rowStatus,
          hook, provider, sockets, sent, listeners, got, component, request,
          upload>>

pipelineVars == <<produced, queue, popped, dispTick, dispPending, lastSubmitted>>
storeVars == <<position, global, strat, trades>>
snapVars == <<snapPc, snap>>
controlVars == <<engine, retries, rowStatus>>
uiVars == <<hook, provider, sockets, sent, listeners, got, component, request,
            upload>>
socketVars == <<hook, provider, sockets, sent, listeners, got, component, request>>
providerVars == <<provider, sockets, sent>>
listenerVars == <<listeners, got>>
historyVars == <<component, request>>
workVars == <<taskQ, pc, task, loc, errorCount, lock, recordCalls>>
serverVars == <<produced, queue, popped, dispTick, dispPending, taskQ, pc, task,
                loc, registry, position, global, strat, trades, errorCount, lock,
                snapPc, snap, recordCalls, lastSubmitted, engine, retries>>

Min(a, b) == IF a < b THEN a ELSE b

Init ==
  /\ produced = 0
  /\ queue = <<>>
  /\ popped = 0
  /\ dispTick = NoTick
  /\ dispPending = {}
  /\ taskQ = <<>>
  /\ pc = [w \in Workers |-> "idle"]
  /\ task = [w \in Workers |-> NoTask]
  /\ loc = [w \in Workers |-> NoLocal]
  /\ registry = [s \in StrategyIds |-> "Active"]
  /\ position = [s \in StrategyIds |-> Flat]
  /\ global = ZeroMetrics
  /\ strat = [s \in StrategyIds |-> ZeroMetrics]
  /\ trades = <<>>
  /\ errorCount = [s \in StrategyIds |-> 0]
  /\ lock = NoHolder
  /\ snapPc = "idle"
  /\ snap = NoSnapshot
  /\ recordCalls = 0
  /\ lastSubmitted = [s \in StrategyIds |-> 0]
  /\ engine = "Running"
  /\ retries = 0
  /\ rowStatus = [s \in ControlledIds |-> "ACTIVE"]
  /\ hook = HookMounted
  /\ provider = ProviderMounted
  /\ sockets = <<NewSocket>>
  /\ sent = 0
  /\ listeners = <<>>
  /\ got = [l \in Functions |-> <<>>]
  /\ component = NotMounted
  /\ request = NoRequest
  /\ upload = NothingUploaded

(***************************************************************************)
(* Ingestion pipeline: push blocks while the queue is full.                *)
(***************************************************************************)
(* a queue created without maxsize: put never blocks *)
QueueUnbounded == TRUE

QueueHasRoom == Len(queue) < QueueCapacity

(* a read of the source that succeeded: the tick is pushed and the retry   *)
(* count of the source loop starts again                                   *)
Push(instr) ==
  /\ engine = "Running"
  /\ produced < MaxTicks
  /\ QueueHasRoom
  /\ produced' = produced + 1
  /\ queue' = Append(queue, [instrumentId |-> instr, price |-> PriceAt(produced + 1),
                             timestamp |-> produced + 1])
  /\ UNCHANGED <<popped, dispTick, dispPending, lastSubmitted, taskQ, pc,
                 task, loc, registry, errorCount, lock, recordCalls>>
  /\ retries' = 0
  /\ UNCHANGED <<engine, rowStatus>>
  /\ UNCHANGED storeVars
  /\ UNCHANGED snapVars
  /\ UNCHANGED uiVars

(***************************************************************************)
(* Dispatcher: single reader of the queue.                                 *)
(***************************************************************************)
(* a LIFO queue in place of the FIFO one *)
DequeueNewest(q) == [tick |-> q[Len(q)], rest |-> SubSeq(q, 1, Len(q) - 1)]

Dequeue(q) == [tick |-> Head(q), rest |-> Tail(q)]

(* a lookup that forgets the status of the instance *)
MatchesAnyStatus(s, tick) == InstrumentOf(s) = tick.instrumentId

Matches(s, tick) ==
  /\ registry[s] = "Active"
  /\ InstrumentOf(s) = tick.instrumentId

Pop ==
  /\ dispPending = {}
  /\ queue # <<>>
  /\ dispTick' = Dequeue(queue).tick
  /\ queue' = Dequeue(queue).rest
  /\ popped' = popped + 1
  /\ dispPending' = {s \in StrategyIds : Matches(s, Dequeue(queue).tick)}
  /\ UNCHANGED <<produced, lastSubmitted, taskQ, pc, task, loc, registry,
                 errorCount, lock, recordCalls>>
  /\ UNCHANGED storeVars
  /\ UNCHANGED snapVars
  /\ UNCHANGED uiVars
  /\ UNCHANGED controlVars

NextPending == CHOOSE s \in dispPending : \A r \in dispPending : DictOrder(s) <= DictOrder(r)

Submit ==
  /\ dispPending # {}
  /\ taskQ' = Append(taskQ, [strategyId |-> NextPending, tick |-> dispTick])
  /\ dispPending' = dispPending \ {NextPending}
  /\ lastSubmitted' = [lastSubmitted EXCEPT ![NextPending] = dispTick.timestamp]
  /\ UNCHANGED <<produced, queue, popped, dispTick, pc, task, loc, registry,
                 errorCount, lock, recordCalls>>
  /\ UNCHANGED storeVars
  /\ UNCHANGED snapVars
  /\ UNCHANGED uiVars
  /\ UNCHANGED controlVars

(***************************************************************************)
(* Worker pool: a worker takes a task, evaluates the strategy on the tick  *)
(* (pure: no shared state is read or written) and hands the outcome to     *)
(* result collection.                                                      *)
(***************************************************************************)
Quantities == {1}

RECURSIVE SumOver(_, _)
SumOver(f, S) ==
  IF S = {} THEN 0
  ELSE LET x == CHOOSE y \in S : TRUE IN f[x] + SumOver(f, S \ {x})

ErrorsSoFar == SumOver(errorCount, StrategyIds)

(* what a worker does with the outcome of evaluate(): None is dropped, an  *)
(* exception is caught at the worker boundary, an intent goes to           *)
(* recordTrade                                                             *)
AfterEvaluate(outcome) ==
  CASE outcome = "None" -> "idle"
    [] outcome = "Throw" -> "failed"
    [] OTHER -> "rtAcquire"

(* a strategy that books its own position from inside the worker *)
EvaluationWritesPosition ==
  /\ position' = [position EXCEPT ![Head(taskQ).strategyId].size = @ + 1]
  /\ UNCHANGED <<global, strat, trades>>

(* a worker holds no reference to the store *)
EvaluationEffect == UNCHANGED storeVars

(* the worker takes the oldest task and runs evaluate(tick) on it; the    *)
(* evaluation touches nothing shared, so taking and evaluating are one step *)
Evaluate(w, outcome, qty) ==
  /\ pc[w] = "idle"
  /\ taskQ # <<>>
  /\ outcome \in {"Buy", "Sell"} => recordCalls < MaxIntents
  /\ outcome = "Throw" => ErrorsSoFar < MaxErrors
  /\ taskQ' = Tail(taskQ)
  /\ pc' = [pc EXCEPT ![w] = AfterEvaluate(outcome)]
  /\ task' = [task EXCEPT ![w] = IF outcome = "None" THEN NoTask ELSE Head(taskQ)]
  /\ loc' = [loc EXCEPT ![w] = IF outcome \in {"Buy", "Sell"}
                                 THEN [NoLocal EXCEPT !.intent =
                                         [action |-> outcome, quantity |-> qty]]
                                 ELSE NoLocal]
  /\ recordCalls' = IF outcome \in {"Buy", "Sell"} THEN recordCalls + 1 ELSE recordCalls
  /\ UNCHANGED <<registry, errorCount, lock>>
  /\ UNCHANGED pipelineVars
  /\ EvaluationEffect
  /\ UNCHANGED snapVars
  /\ UNCHANGED uiVars
  /\ UNCHANGED controlVars

(* one counter shared by all strategies *)
CountErrorForAll(s) == [r \in StrategyIds |-> errorCount[r] + 1]

(* the error counters after strategy s failed on a tick *)
CountError(s) == [errorCount EXCEPT ![s] = @ + 1]

(* an exception that takes the worker down with it *)
WorkerDies(w) ==
  /\ pc[w] = "failed"
  /\ errorCount' = CountError(task[w].strategyId)
  /\ pc' = [pc EXCEPT ![w] = "dead"]
  /\ UNCHANGED <<taskQ, task, loc, registry, lock, recordCalls>>
  /\ UNCHANGED pipelineVars
  /\ UNCHANGED storeVars
  /\ UNCHANGED snapVars
  /\ UNCHANGED uiVars
  /\ UNCHANGED controlVars

HandleError(w) ==
  /\ pc[w] = "failed"
  /\ errorCount' = CountError(task[w].strategyId)
  /\ pc' = [pc EXCEPT ![w] = "idle"]
  /\ task' = [task EXCEPT ![w] = NoTask]
  /\ UNCHANGED <<taskQ, loc, registry, lock, recordCalls>>
  /\ UNCHANGED pipelineVars
  /\ UNCHANGED storeVars
  /\ UNCHANGED snapVars
  /\ UNCHANGED uiVars
  /\ UNCHANGED controlVars

(***************************************************************************)
(* Shared state store.                                                     *)
(***************************************************************************)
(* a store whose writers do not take the lock *)
LockIgnored == TRUE

LockAvailable == lock = NoHolder

(* a readSnapshot that copies without taking the lock *)
SnapshotUnlocked == TRUE

SnapshotMayCopy == LockAvailable

RealizedPnL(pos, action, qty, price) ==
  IF action = "Sell" THEN (price - pos.entryPrice) * Min(qty, pos.size) ELSE 0

UpdatePosition(pos, action, qty, price) ==
  IF action = "Buy"
  THEN [size |-> pos.size + qty,
        entryPrice |-> (pos.size * pos.entryPrice + qty * price) \div (pos.size + qty)]
  ELSE LET left == pos.size - Min(qty, pos.size)
       IN [size |-> left, entryPrice |-> IF left = 0 THEN 0 ELSE pos.entryPrice]

(* gross loss accumulated with the sign of the P&L *)
ApplyTradeSignedLoss(m, pnl) ==
  [totalTrades |-> m.totalTrades + 1,
   winningTrades |-> IF pnl > 0 THEN m.winningTrades + 1 ELSE m.winningTrades,
   losingTrades |-> IF pnl > 0 THEN m.losingTrades ELSE m.losingTrades + 1,
   grossProfit |-> IF pnl > 0 THEN m.grossProfit + pnl ELSE m.grossProfit,
   grossLoss |-> IF pnl > 0 THEN m.grossLoss ELSE m.grossLoss + pnl,
   netPnL |-> m.netPnL + pnl]

(* a trade counted as losing only when its P&L is negative *)
ApplyTradeStrictLoss(m, pnl) ==
  [totalTrades |-> m.totalTrades + 1,
   winningTrades |-> IF pnl > 0 THEN m.winningTrades + 1 ELSE m.winningTrades,
   losingTrades |-> IF pnl < 0 THEN m.losingTrades + 1 ELSE m.losingTrades,
   grossProfit |-> IF pnl > 0 THEN m.grossProfit + pnl ELSE m.grossProfit,
   grossLoss |-> IF pnl < 0 THEN m.grossLoss - pnl ELSE m.grossLoss,
   netPnL |-> m.netPnL + pnl]

ApplyTrade(m, pnl) ==
  [totalTrades |-> m.totalTrades + 1,
   winningTrades |-> IF pnl > 0 THEN m.winningTrades + 1 ELSE m.winningTrades,
   losingTrades |-> IF pnl > 0 THEN m.losingTrades ELSE m.losingTrades + 1,
   grossProfit |-> IF pnl > 0 THEN m.grossProfit + pnl ELSE m.grossProfit,
   grossLoss |-> IF pnl > 0 THEN m.grossLoss ELSE m.grossLoss - pnl,
   netPnL |-> m.netPnL + pnl]

TradeRecord(t, intent, pnl) ==
  [instrumentId |-> t.tick.instrumentId, strategyId |-> t.strategyId,
   action |-> intent.action, price |-> t.tick.price, quantity |-> intent.quantity,
   timestamp |-> t.tick.timestamp, realizedPnL |-> pnl]

(* recordTrade, for the worker whose result is collected: acquire the lock *)
(* and read; update position, GlobalMetrics and the StrategyMetrics;       *)
(* append the TradeRecord and release                                      *)
RtAcquire(w) ==
  LET s == task[w].strategyId
      i == loc[w].intent
      p == task[w].tick.price
  IN /\ pc[w] = "rtAcquire"
     /\ LockAvailable
     /\ lock' = w
     /\ loc' = [loc EXCEPT ![w] = [intent |-> i,
                                   pnl |-> RealizedPnL(position[s], i.action, i.quantity, p),
                                   g |-> global, m |-> strat[s]]]
     /\ pc' = [pc EXCEPT ![w] = "rtUpdate"]
     /\ UNCHANGED <<taskQ, task, registry, errorCount, recordCalls>>
     /\ UNCHANGED pipelineVars
     /\ UNCHANGED storeVars
     /\ UNCHANGED snapVars
     /\ UNCHANGED uiVars
     /\ UNCHANGED controlVars

RtUpdate(w) ==
  LET s == task[w].strategyId
      i == loc[w].intent
  IN /\ pc[w] = "rtUpdate"
     /\ position' = [position EXCEPT
                       ![s] = UpdatePosition(@, i.action, i.quantity, task[w].tick.price)]
     /\ global' = ApplyTrade(loc[w].g, loc[w].pnl)
     /\ strat' = [strat EXCEPT ![s] = ApplyTrade(loc[w].m, loc[w].pnl)]
     /\ pc' = [pc EXCEPT ![w] = "rtAppend"]
     /\ UNCHANGED <<taskQ, task, loc, registry, errorCount, lock, recordCalls, trades>>
     /\ UNCHANGED pipelineVars
     /\ UNCHANGED snapVars
     /\ UNCHANGED uiVars
     /\ UNCHANGED controlVars

(* a recordTrade that returns without releasing the lock *)
RtAppendKeepsLock(w) ==
  /\ pc[w] = "rtAppend"
  /\ trades' = Append(trades, TradeRecord(task[w], loc[w].intent, loc[w].pnl))
  /\ pc' = [pc EXCEPT ![w] = "idle"]
  /\ task' = [task EXCEPT ![w] = NoTask]
  /\ loc' = [loc EXCEPT ![w] = NoLocal]
  /\ UNCHANGED <<taskQ, registry, errorCount, recordCalls, lock>>
  /\ UNCHANGED <<position, global, strat>>
  /\ UNCHANGED pipelineVars
  /\ UNCHANGED snapVars
  /\ UNCHANGED uiVars
  /\ UNCHANGED controlVars

RtAppend(w) ==
  /\ pc[w] = "rtAppend"
  /\ trades' = Append(trades, TradeRecord(task[w], loc[w].intent, loc[w].pnl))
  /\ lock' = NoHolder
  /\ pc' = [pc EXCEPT ![w] = "idle"]
  /\ task' = [task EXCEPT ![w] = NoTask]
  /\ loc' = [loc EXCEPT ![w] = NoLocal]
  /\ UNCHANGED <<taskQ, registry, errorCount, recordCalls>>
  /\ UNCHANGED <<position, global, strat>>
  /\ UNCHANGED pipelineVars
  /\ UNCHANGED snapVars
  /\ UNCHANGED uiVars
  /\ UNCHANGED controlVars

(* readSnapshot: lock and copy; unlock and return the copy *)
StoreView == [taken |-> TRUE, global |-> global, strat |-> strat,
              position |-> position, trades |-> trades]

SnapAcquire ==
  /\ snapPc = "idle"
  /\ SnapshotMayCopy
  /\ lock' = SnapshotReader
  /\ snap' = StoreView
  /\ snapPc' = "copied"
  /\ UNCHANGED <<taskQ, pc, task, loc, registry, errorCount, recordCalls>>
  /\ UNCHANGED pipelineVars
  /\ UNCHANGED storeVars
  /\ UNCHANGED controlVars
  /\ UNCHANGED uiVars

SnapRelease ==
  /\ snapPc = "copied"
  /\ lock' = NoHolder
  /\ snapPc' = "idle"
  /\ snap' = NoSnapshot
  /\ UNCHANGED <<taskQ, pc, task, loc, registry, errorCount, recordCalls>>
  /\ UNCHANGED pipelineVars
  /\ UNCHANGED storeVars
  /\ UNCHANGED controlVars
  /\ UNCHANGED uiVars

(***************************************************************************)
(* Registration state machine.                                             *)
(***************************************************************************)
FreshMetrics == ZeroMetrics

(* a registration that resumes the history of the previous instance *)
RegisterResumingHistory(s) ==
  /\ registry[s] = "Unregistered"
  /\ LockAvailable
  /\ registry' = [registry EXCEPT ![s] = "Active"]
  /\ UNCHANGED <<taskQ, pc, task, loc, errorCount, lock, recordCalls>>
  /\ UNCHANGED <<engine, retries>>
  /\ UNCHANGED pipelineVars
  /\ UNCHANGED storeVars
  /\ UNCHANGED snapVars
  /\ UNCHANGED uiVars

Register(s) ==
  /\ registry[s] = "Unregistered"
  /\ LockAvailable
  /\ registry' = [registry EXCEPT ![s] = "Active"]
  /\ strat' = [strat EXCEPT ![s] = FreshMetrics]
  /\ position' = [position EXCEPT ![s] = Flat]
  /\ UNCHANGED <<taskQ, pc, task, loc, errorCount, lock, recordCalls>>
  /\ UNCHANGED <<global, trades>>
  /\ UNCHANGED pipelineVars
  /\ UNCHANGED snapVars
  /\ UNCHANGED uiVars
  /\ UNCHANGED <<engine, retries>>

Unregister(s) ==
  /\ registry[s] \in {"Active", "Paused"}
  /\ registry' = [registry EXCEPT ![s] = "Unregistered"]
  /\ UNCHANGED <<taskQ, pc, task, loc, errorCount, lock, recordCalls>>
  /\ UNCHANGED pipelineVars
  /\ UNCHANGED storeVars
  /\ UNCHANGED snapVars
  /\ UNCHANGED uiVars
  /\ UNCHANGED <<engine, retries>>

Pause(s) ==
  /\ registry[s] = "Active"
  /\ registry' = [registry EXCEPT ![s] = "Paused"]
  /\ UNCHANGED <<taskQ, pc, task, loc, errorCount, lock, recordCalls>>
  /\ UNCHANGED pipelineVars
  /\ UNCHANGED storeVars
  /\ UNCHANGED snapVars
  /\ UNCHANGED uiVars
  /\ UNCHANGED <<engine, retries>>

Resume(s) ==
  /\ registry[s] = "Paused"
  /\ registry' = [registry EXCEPT ![s] = "Active"]
  /\ UNCHANGED <<taskQ, pc, task, loc, errorCount, lock, recordCalls>>
  /\ UNCHANGED pipelineVars
  /\ UNCHANGED storeVars
  /\ UNCHANGED snapVars
  /\ UNCHANGED uiVars
  /\ UNCHANGED <<engine, retries>>

(***************************************************************************)
(* Engine lifecycle: stop() signals the producer, the queue is drained and *)
(* submitted tasks finish; after the timeout the remaining tasks are       *)
(* abandoned.                                                              *)
(***************************************************************************)
Stop ==
  /\ engine = "Running"
  /\ engine' = "Stopping"
  /\ UNCHANGED <<registry, retries>>
  /\ UNCHANGED workVars
  /\ UNCHANGED pipelineVars
  /\ UNCHANGED storeVars
  /\ UNCHANGED snapVars
  /\ UNCHANGED uiVars

Start ==
  /\ engine = "Stopped"
  /\ engine' = "Running"
  /\ UNCHANGED <<registry, retries>>
  /\ UNCHANGED workVars
  /\ UNCHANGED pipelineVars
  /\ UNCHANGED storeVars
  /\ UNCHANGED snapVars
  /\ UNCHANGED uiVars

Drained ==
  /\ queue = <<>>
  /\ dispPending = {}

Quiescent ==
  /\ Drained
  /\ taskQ = <<>>
  /\ \A w \in Workers : pc[w] = "idle"

(* the drain has finished: nothing is queued, submitted or running *)
ShutdownComplete ==
  /\ engine = "Stopping"
  /\ Quiescent
  /\ engine' = "Stopped"
  /\ UNCHANGED <<registry, retries, rowStatus>>
  /\ UNCHANGED workVars
  /\ UNCHANGED pipelineVars
  /\ UNCHANGED storeVars
  /\ UNCHANGED snapVars
  /\ UNCHANGED uiVars

(* a timeout that does not wait for the trade being applied *)
AbandonAnyTime == TRUE

(* results are applied under the lock, and the timeout abandons what is    *)
(* left only between two applications                                      *)
AbandonAllowed == \A w \in Workers : lock # w

(* the timeout: tasks not yet taken, evaluations that failed and results   *)
(* not yet applied are discarded                                           *)
ShutdownTimeout ==
  /\ engine = "Stopping"
  /\ Drained
  /\ ~Quiescent
  /\ AbandonAllowed
  /\ engine' = "Stopped"
  /\ taskQ' = <<>>
  /\ pc' = [w \in Workers |-> "idle"]
  /\ task' = [w \in Workers |-> NoTask]
  /\ loc' = [w \in Workers |-> NoLocal]
  /\ recordCalls' = recordCalls - Cardinality({w \in Workers : pc[w] = "rtAcquire"})
  /\ lock' = IF lock \in Workers THEN NoHolder ELSE lock
  /\ UNCHANGED <<registry, errorCount, retries, rowStatus>>
  /\ UNCHANGED pipelineVars
  /\ UNCHANGED storeVars
  /\ UNCHANGED snapVars
  /\ UNCHANGED uiVars

(***************************************************************************)
(* Source failures: a failed read is retried, a bounded number of times;   *)
(* then the pipeline gives up and the engine is in Error.                  *)
(***************************************************************************)
(* a retry loop without a limit *)
RetryAlways == TRUE

RetryAllowed == retries < MaxRetries

(* a read of the source failed and will be tried again after the backoff *)
ReadFails ==
  /\ engine = "Running"
  /\ produced < MaxTicks
  /\ RetryAllowed
  /\ retries' = retries + 1
  /\ UNCHANGED <<registry, engine, rowStatus>>
  /\ UNCHANGED workVars
  /\ UNCHANGED pipelineVars
  /\ UNCHANGED storeVars
  /\ UNCHANGED snapVars
  /\ UNCHANGED uiVars

(* the last retry failed too *)
GiveUp ==
  /\ engine = "Running"
  /\ produced < MaxTicks
  /\ ~RetryAllowed
  /\ engine' = "Error"
  /\ UNCHANGED <<registry, retries, rowStatus>>
  /\ UNCHANGED workVars
  /\ UNCHANGED pipelineVars
  /\ UNCHANGED storeVars
  /\ UNCHANGED snapVars
  /\ UNCHANGED uiVars

(* the status the control surface reports: Running | Stopped | Error *)
EngineStatus == IF engine = "Stopping" THEN "Stopped" ELSE engine

Source == ReadFails \/ GiveUp
Lifecycle ==
  \/ Stop /\ UNCHANGED rowStatus
  \/ Start /\ UNCHANGED rowStatus
  \/ ShutdownComplete
  \/ ShutdownTimeout

(***************************************************************************)
(* Dashboard (live table) and its API client.                              *)
(***************************************************************************)
FetchOutcomes == {"delivered", "failed", "badBody"}
Null == "null"
Rejects == "rejects"

(* an API client function without its try/catch *)
ApiCallUncaught(outcome, body) ==
  CASE outcome = "failed" -> Rejects
    [] outcome = "badBody" -> Rejects
    [] OTHER -> body

(* try { res = await fetch(..); return await res.json() } catch { return null } *)
ApiCall(outcome, body) ==
  CASE outcome = "failed" -> Null
    [] outcome = "badBody" -> Null
    [] OTHER -> body

(* the request reached the backend *)
Served(outcome) == outcome # "failed"

UnregisterResult(s) ==
  IF registry[s] \in {"Active", "Paused"} THEN "success" ELSE "not_found"
RegisterResult(s) ==
  IF registry[s] = "Unregistered" THEN "success" ELSE "already_registered"
StopResult == IF engine = "Running" THEN "success" ELSE "not_running"
StartResult == IF engine = "Stopped" THEN "success" ELSE "not_stopped"

(* the backend's handling of a request: an inapplicable call is answered   *)
(* with a result and changes nothing                                       *)
ServeUnregister(s) ==
  IF UnregisterResult(s) = "success" THEN Unregister(s) ELSE UNCHANGED <<serverVars, uiVars>>
ServeRegister(s) ==
  IF RegisterResult(s) = "success" THEN Register(s) ELSE UNCHANGED <<serverVars, uiVars>>
ServeStop == IF StopResult = "success" THEN Stop ELSE UNCHANGED <<serverVars, uiVars>>
ServeStart == IF StartResult = "success" THEN Start ELSE UNCHANGED <<serverVars, uiVars>>

PauseResult(s) ==
  CASE registry[s] = "Active" -> "success"
    [] registry[s] = "Paused" -> "already_paused"
    [] OTHER -> "not_found"
ResumeResult(s) ==
  CASE registry[s] = "Paused" -> "success"
    [] registry[s] = "Active" -> "already_active"
    [] OTHER -> "not_found"

(* a pause endpoint that toggles: pausing a Paused strategy resumes it *)
ServePauseToggles(s) ==
  CASE registry[s] = "Active" -> Pause(s)
    [] registry[s] = "Paused" -> Resume(s)
    [] OTHER -> UNCHANGED <<serverVars, uiVars>>

ServePause(s) ==
  IF PauseResult(s) = "success" THEN Pause(s) ELSE UNCHANGED <<serverVars, uiVars>>
ServeResume(s) ==
  IF ResumeResult(s) = "success" THEN Resume(s) ELSE UNCHANGED <<serverVars, uiVars>>

(* the control surface called directly: every call is answered, applicable *)
(* or not                                                                  *)
ControlSurface ==
  \/ \E s \in ControlledIds :
       \/ ServeRegister(s) /\ UNCHANGED rowStatus
       \/ ServeUnregister(s) /\ UNCHANGED rowStatus
       \/ ServePause(s) /\ UNCHANGED rowStatus
       \/ ServeResume(s) /\ UNCHANGED rowStatus
  \/ ServeStop /\ UNCHANGED rowStatus
  \/ ServeStart /\ UNCHANGED rowStatus

(* toggleStrategy(item): the per-row pause/start control *)
ToggleStrategy(s, outcome) ==
  IF rowStatus[s] = "ACTIVE"
  THEN /\ IF Served(outcome) THEN ServeUnregister(s) ELSE UNCHANGED <<serverVars, uiVars>>
       /\ rowStatus' = [rowStatus EXCEPT ![s] = "PAUSED"]
  ELSE /\ IF Served(outcome) THEN ServeRegister(s) ELSE UNCHANGED <<serverVars, uiVars>>
       /\ rowStatus' = [rowStatus EXCEPT ![s] = "ACTIVE"]

(* handlePauseAll: stopEngine(), and on a response all rows show PAUSED *)
HandlePauseAll(outcome) ==
  /\ IF Served(outcome) THEN ServeStop ELSE UNCHANGED <<serverVars, uiVars>>
  /\ rowStatus' = IF ApiCall(outcome, StopResult) # Null
                  THEN [s \in ControlledIds |-> "PAUSED"] ELSE rowStatus

(* handleStartAll: startEngine(), and on a response all rows show ACTIVE *)
HandleStartAll(outcome) ==
  /\ IF Served(outcome) THEN ServeStart ELSE UNCHANGED <<serverVars, uiVars>>
  /\ rowStatus' = IF ApiCall(outcome, StartResult) # Null
                  THEN [s \in ControlledIds |-> "ACTIVE"] ELSE rowStatus

Dashboard ==
  \E o \in FetchOutcomes :
    \/ \E s \in ControlledIds : ToggleStrategy(s, o)
    \/ HandlePauseAll(o)
    \/ HandleStartAll(o)

(***************************************************************************)
(* useWebSocket (live dashboard): one socket per effect run.  url and      *)
(* onMessage are stable (handleWsMessage is a useCallback with no          *)
(* dependencies), so the effect runs once per mount.                       *)
(***************************************************************************)
HookOpens ==
  /\ hook.readyState = "CONNECTING"
  /\ hook' = [hook EXCEPT !.readyState = "OPEN"]
  /\ UNCHANGED <<serverVars, rowStatus, providerVars, listenerVars, historyVars, upload>>

(* the server sends a frame on the open connection *)
HookServerSends(kind) ==
  /\ hook.readyState = "OPEN"
  /\ hook.handled + Len(hook.inbox) < MaxMessages
  /\ hook' = [hook EXCEPT !.inbox = Append(@, kind)]
  /\ UNCHANGED <<serverVars, rowStatus, providerVars, listenerVars, historyVars, upload>>

(* ws.onmessage: JSON.parse, onMessage(parsed); a parse error is caught *)
HookOnMessage ==
  /\ hook.readyState = "OPEN"
  /\ hook.inbox # <<>>
  /\ hook' = [hook EXCEPT !.inbox = Tail(@),
                          !.handled = IF Head(hook.inbox) = "json" THEN @ + 1 ELSE @]
  /\ UNCHANGED <<serverVars, rowStatus, providerVars, listenerVars, historyVars, upload>>

(* the connection ends (failure, server close or the end of ws.close());  *)
(* ws.onclose starts a timer and nothing else                              *)
HookCloses ==
  /\ hook.readyState \in {"CONNECTING", "OPEN", "CLOSING"}
  /\ hook' = [hook EXCEPT !.readyState = "CLOSED", !.inbox = <<>>, !.timer = TRUE]
  /\ UNCHANGED <<serverVars, rowStatus, providerVars, listenerVars, historyVars, upload>>

(* the timer of onclose: if (wsRef.current === ws) wsRef.current = null *)
HookTimerFires ==
  /\ hook.timer
  /\ hook' = [hook EXCEPT !.timer = FALSE, !.wsRef = "null"]
  /\ UNCHANGED <<serverVars, rowStatus, providerVars, listenerVars, historyVars, upload>>

(* effect cleanup: ws.close(); wsRef.current = null *)
HookUnmount ==
  /\ hook.mounted
  /\ hook' = [hook EXCEPT !.mounted = FALSE, !.wsRef = "null",
                          !.readyState = IF @ \in {"CONNECTING", "OPEN"}
                                         THEN "CLOSING" ELSE @]
  /\ UNCHANGED <<serverVars, rowStatus, providerVars, listenerVars, historyVars, upload>>

UseWebSocket ==
  \/ HookOpens
  \/ \E k \in MessageKinds : HookServerSends(k)
  \/ HookOnMessage
  \/ HookCloses
  \/ HookTimerFires
  \/ HookUnmount

(***************************************************************************)
(* WebSocketProvider (useWebSocketManager.tsx).                            *)
(***************************************************************************)
(* a || b of JavaScript on numbers *)
Or(a, b) == IF a # 0 THEN a ELSE b

(* a backoff that keeps doubling *)
BackoffUncapped(r) == Or(Or(r, 1000) * 2, 1000)

(* Math.min(30000, (reconnectRef.current || 1000) * 2 || 1000) *)
Backoff(r) == Min(30000, Or(Or(r, 1000) * 2, 1000))

Alive(sk) == sk.readyState \in {"CONNECTING", "OPEN"}

(* a connect() that reports the connection before it has opened *)
ConnectOptimistic(pv) ==
  /\ sockets' = Append(sockets, NewSocket)
  /\ provider' = [pv EXCEPT !.wsRef = Len(sockets) + 1, !.connected = TRUE]

(* connect(): const ws = new WebSocket(wsUrl); wsRef.current = ws *)
Connect(pv) ==
  /\ sockets' = Append(sockets, NewSocket)
  /\ provider' = [pv EXCEPT !.wsRef = Len(sockets) + 1]

(* ws.onopen: reconnectRef.current = 0; if (!mounted) return;              *)
(* setConnected(true)                                                      *)
ProviderOpens(i) ==
  /\ sockets[i].readyState = "CONNECTING"
  /\ sockets' = [sockets EXCEPT ![i].readyState = "OPEN"]
  /\ provider' = [provider EXCEPT !.reconnectRef = 0,
                                  !.attempts = 0,
                                  !.connected = IF provider.mounted THEN TRUE ELSE @]
  /\ UNCHANGED <<sent, listenerVars, historyVars>>
  /\ UNCHANGED <<serverVars, rowStatus, hook, upload>>

(* ws.onclose that reconnects at once and by timer *)
ProviderClosesReconnectingTwice(i) ==
  /\ sockets[i].readyState \in {"CONNECTING", "OPEN", "CLOSING"}
  /\ Len(sockets) < MaxSockets
  /\ LET closed == [sockets EXCEPT ![i] = [readyState |-> "CLOSED", inbox |-> <<>>]]
         delay == Backoff(provider.reconnectRef)
     IN  IF provider.mounted
         THEN /\ sockets' = Append(closed, NewSocket)
              /\ provider' = [provider EXCEPT !.connected = FALSE,
                                              !.reconnectRef = delay,
                                              !.attempts = @ + 1,
                                              !.wsRef = Len(sockets) + 1,
                                              !.timers = Append(@, Or(delay, 1000))]
         ELSE /\ sockets' = closed
              /\ UNCHANGED provider
  /\ UNCHANGED <<sent, listenerVars, historyVars>>
  /\ UNCHANGED <<serverVars, rowStatus, hook, upload>>

(* the connection of socket i ends: by failure (the error event's          *)
(* ws.close() then finds the socket closed), by the server, or at the end  *)
(* of a ws.close().  ws.onclose: if (!mounted) return; setConnected(false);*)
(* reconnectRef.current = backoff; setTimeout(connect, reconnectRef || 1000)*)
ProviderCloses(i) ==
  /\ sockets[i].readyState \in {"CONNECTING", "OPEN", "CLOSING"}
  /\ sockets' = [sockets EXCEPT ![i] = [readyState |-> "CLOSED", inbox |-> <<>>]]
  /\ LET delay == Backoff(provider.reconnectRef)
     IN  provider' = IF provider.mounted
                     THEN [provider EXCEPT !.connected = FALSE,
                                           !.reconnectRef = delay,
                                           !.attempts = @ + 1,
                                           !.timers = Append(@, Or(delay, 1000))]
                     ELSE provider
  /\ UNCHANGED <<sent, listenerVars, historyVars>>
  /\ UNCHANGED <<serverVars, rowStatus, hook, upload>>

RemoveAt(q, j) == SubSeq(q, 1, j - 1) \o SubSeq(q, j + 1, Len(q))

(* a reconnect timer fires: () => connect() *)
ProviderTimerFires(j) ==
  /\ j \in 1..Len(provider.timers)
  /\ Len(sockets) < MaxSockets
  /\ Connect([provider EXCEPT !.timers = RemoveAt(@, j)])
  /\ UNCHANGED <<sent, listenerVars, historyVars>>
  /\ UNCHANGED <<serverVars, rowStatus, hook, upload>>

(* effect cleanup: mounted = false; wsRef.current?.close();                *)
(* wsRef.current = null                                                    *)
ProviderUnmount ==
  /\ provider.mounted
  /\ provider' = [provider EXCEPT !.mounted = FALSE, !.wsRef = 0]
  /\ sockets' = [i \in 1..Len(sockets) |->
                   IF i = provider.wsRef /\ Alive(sockets[i])
                   THEN [sockets[i] EXCEPT !.readyState = "CLOSING"]
                   ELSE sockets[i]]
  /\ UNCHANGED <<sent, listenerVars, historyVars>>
  /\ UNCHANGED <<serverVars, rowStatus, hook, upload>>

WebSocketProvider ==
  \/ \E i \in 1..Len(sockets) : ProviderOpens(i)
  \/ \E i \in 1..Len(sockets) : ProviderCloses(i)
  \/ \E j \in 1..MaxSockets : ProviderTimerFires(j)
  \/ ProviderUnmount

(***************************************************************************)
(* Delivery of server events to the listeners of the provider.             *)
(***************************************************************************)
(* the server emits event number sent + 1 on every open connection *)
ServerBroadcast(kind) ==
  /\ sent < MaxMessages
  /\ \E i \in 1..Len(sockets) : sockets[i].readyState = "OPEN"
  /\ sent' = sent + 1
  /\ sockets' = [i \in 1..Len(sockets) |->
                   IF sockets[i].readyState = "OPEN"
                   THEN [sockets[i] EXCEPT !.inbox = Append(@, [id |-> sent + 1, kind |-> kind])]
                   ELSE sockets[i]]
  /\ UNCHANGED <<provider, listenerVars, historyVars>>
  /\ UNCHANGED <<serverVars, rowStatus, hook, upload>>

Throws(fn) == fn = Other

RECURSIVE ForEachUncaught(_, _, _)
(* forEach(fn => fn(parsed)) without the inner try: the first throw ends it *)
ForEachUncaught(fns, g, id) ==
  IF fns = <<>> THEN g
  ELSE IF Throws(Head(fns)) THEN [g EXCEPT ![Head(fns)] = Append(@, id)]
  ELSE ForEachUncaught(Tail(fns), [g EXCEPT ![Head(fns)] = Append(@, id)], id)

RECURSIVE ForEach(_, _, _)
(* listenersRef.current.forEach(fn => { try { fn(parsed) } catch {} }) *)
ForEach(fns, g, id) ==
  IF fns = <<>> THEN g
  ELSE ForEach(Tail(fns), [g EXCEPT ![Head(fns)] = Append(@, id)], id)

(* the handler of TradeHistoryDashboard:                                   *)
(* if (msg.type === 'trade') setTrades(prev => [msg.trade, ...prev])       *)
(* each call prepends once *)
OnTrade(cp, id, calls) ==
  IF calls = 0 \/ ~cp.mounted THEN cp
  ELSE [cp EXCEPT !.trades = [k \in 1..calls |-> id] \o @, !.seen = @ \cup {id}]

(* ws.onmessage: if (!mounted) return; JSON.parse; forEach listener *)
ProviderOnMessage(i) ==
  /\ sockets[i].readyState = "OPEN"
  /\ sockets[i].inbox # <<>>
  /\ sockets' = [sockets EXCEPT ![i].inbox = Tail(@)]
  /\ LET msg == Head(sockets[i].inbox)
         parsed == provider.mounted /\ msg.kind = "json"
     IN  /\ got' = IF parsed THEN ForEach(listeners, got, msg.id) ELSE got
         /\ component' = OnTrade(component, msg.id,
                                 Cardinality({h \in Handlers : got'[h] # got[h]}))
  /\ UNCHANGED <<provider, sent, listeners, request>>
  /\ UNCHANGED <<serverVars, rowStatus, hook, upload>>

InSeq(x, q) == \E k \in 1..Len(q) : q[k] = x

(* Set.add *)
Add(fns, fn) == IF InSeq(fn, fns) THEN fns ELSE Append(fns, fn)

(* Set.delete *)
Delete(fns, fn) == SelectSeq(fns, LAMBDA x : x # fn)

(* addListener(fn) by another subscriber, and the unsubscribe it returned *)
OtherSubscribes ==
  /\ ~InSeq(Other, listeners)
  /\ provider.mounted
  /\ listeners' = Add(listeners, Other)
  /\ UNCHANGED <<providerVars, got, historyVars>>
  /\ UNCHANGED <<serverVars, rowStatus, hook, upload>>

OtherUnsubscribes ==
  /\ InSeq(Other, listeners)
  /\ listeners' = Delete(listeners, Other)
  /\ UNCHANGED <<providerVars, got, historyVars>>
  /\ UNCHANGED <<serverVars, rowStatus, hook, upload>>

(***************************************************************************)
(* TradeHistoryDashboard: useWsMessages(handler) and fetchInitialTrades.   *)
(***************************************************************************)
(* a re-render whose effect cleanup is lost: the old handler stays *)
RerenderLeaking(cp) == Add(listeners, cp.renders + 1)

(* the effect of useWsMessages re-runs for the new handler: the cleanup    *)
(* (unsub of the previous handler) and then addListener(handler)           *)
Rerender(cp) == Add(Delete(listeners, cp.handler), cp.renders + 1)

(* first render: both effects run *)
Mount ==
  /\ ~component.mounted
  /\ component.renders = 0
  /\ provider.mounted
  /\ component' = [component EXCEPT !.mounted = TRUE, !.renders = 1, !.handler = 1]
  /\ listeners' = Add(listeners, 1)
  /\ request' = [state |-> "sent", body |-> 0]
  /\ UNCHANGED <<providerVars, got>>
  /\ UNCHANGED <<serverVars, rowStatus, hook, upload>>

Render ==
  /\ component.mounted
  /\ component.renders < MaxRenders
  /\ component' = [component EXCEPT !.renders = @ + 1, !.handler = component.renders + 1]
  /\ listeners' = Rerender(component)
  /\ UNCHANGED <<providerVars, got, request>>
  /\ UNCHANGED <<serverVars, rowStatus, hook, upload>>

(* unmount: unsub of the last handler; mounted = false in the fetch effect *)
Unmount ==
  /\ component.mounted
  /\ component' = [component EXCEPT !.mounted = FALSE, !.handler = NoHandler]
  /\ listeners' = Delete(listeners, component.handler)
  /\ UNCHANGED <<providerVars, got, request>>
  /\ UNCHANGED <<serverVars, rowStatus, hook, upload>>

(* GET /trades is answered with the trades recorded so far, or fails;      *)
(* fetchInitialTrades returns the body or null                             *)
ServeTrades(outcome) ==
  /\ request.state = "sent"
  /\ request' = [state |-> "answered",
                 body |-> IF outcome = "delivered" THEN sent ELSE NoBody]
  /\ UNCHANGED <<providerVars, listenerVars, component>>
  /\ UNCHANGED <<serverVars, rowStatus, hook, upload>>

(* data.trades.reverse() of the trades 1..n *)
Reversed(n) == [k \in 1..n |-> n - k + 1]

(* if (mounted && data && Array.isArray(data.trades)) setTrades(reversed) *)
InitialTradesArrive ==
  /\ request.state = "answered"
  /\ request' = [request EXCEPT !.state = "done"]
  /\ component' = IF component.mounted /\ request.body # NoBody
                  THEN [component EXCEPT !.trades = Reversed(request.body)]
                  ELSE component
  /\ UNCHANGED <<providerVars, listenerVars>>
  /\ UNCHANGED <<serverVars, rowStatus, hook, upload>>

UseWsMessages ==
  \/ Mount
  \/ Render
  \/ Unmount

FetchInitialTrades ==
  \/ \E o \in {"delivered", "failed"} : ServeTrades(o)
  \/ InitialTradesArrive

Subscribers ==
  \/ \E k \in MessageKinds : ServerBroadcast(k)
  \/ \E i \in 1..Len(sockets) : ProviderOnMessage(i)
  \/ OtherSubscribes
  \/ OtherUnsubscribes

(***************************************************************************)
(* OptimizationDashboard: uploadRealFile and handleRunBacktest.            *)
(***************************************************************************)
(* handleDrop / handleFileChange / handleLoadSampleData call               *)
(* uploadRealFile(file): setUploadStatus("Uploading..."); setFileName;     *)
(* the POST is sent                                                        *)
UploadStarts(f) ==
  /\ upload.started < MaxUploads
  /\ f \notin upload.inFlight
  /\ upload' = [upload EXCEPT !.uploadStatus = "Uploading...",
                              !.fileName = f,
                              !.inFlight = @ \cup {f},
                              !.started = @ + 1]
  /\ UNCHANGED <<serverVars, rowStatus, socketVars>>

(* the POST of file f completes: response.ok, a response that is not ok,   *)
(* or a rejected fetch                                                     *)
UploadCompletes(f, outcome) ==
  /\ f \in upload.inFlight
  /\ upload' =
       IF outcome = "ok"
       THEN [upload EXCEPT !.inFlight = @ \ {f},
                           !.uploadStatus = "Success! Data loaded.",
                           !.isFileUploaded = TRUE,
                           !.succeeded = @ \cup {f}]
       ELSE [upload EXCEPT !.inFlight = @ \ {f},
                           !.uploadStatus = IF outcome = "notOk" THEN "Upload failed."
                                            ELSE "Error connecting to server.",
                           !.isFileUploaded = FALSE,
                           !.fileName = NoFile]
  /\ UNCHANGED <<serverVars, rowStatus, socketVars>>

(* handleRunBacktest: if (!isFileUploaded) { alert; return }; the dates of *)
(* the form are valid by default; the POST is sent                         *)
RunBacktest ==
  /\ upload.isFileUploaded
  /\ upload.backtests < MaxUploads
  /\ upload' = [upload EXCEPT !.backtests = @ + 1]
  /\ UNCHANGED <<serverVars, rowStatus, socketVars>>

OptimizationDashboard ==
  \/ \E f \in Files : UploadStarts(f)
  \/ \E f \in Files, o \in {"ok", "notOk", "error"} : UploadCompletes(f, o)
  \/ RunBacktest

(***************************************************************************)
(* The engine.                                                             *)
(***************************************************************************)
Producer == \E i \in Instruments : Push(i)
Dispatcher == Pop \/ Submit
Worker(w) ==
  \/ \E o \in Outcomes, q \in Quantities : Evaluate(w, o, q)
  \/ HandleError(w)
RecordTrade(w) ==
  \/ RtAcquire(w)
  \/ RtUpdate(w)
  \/ RtAppend(w)
ReadSnapshot == SnapAcquire \/ SnapRelease
Control ==
  \E s \in ControlledIds :
    \/ Register(s) /\ UNCHANGED rowStatus
    \/ Unregister(s) /\ UNCHANGED rowStatus
    \/ Pause(s) /\ UNCHANGED rowStatus
    \/ Resume(s) /\ UNCHANGED rowStatus

Next ==
  \/ Producer
  \/ Dispatcher
  \/ \E w \in Workers : Worker(w)
  \/ \E w \in Workers : RecordTrade(w)
  \/ ReadSnapshot
  \/ Control

Spec == Init /\ [][Next]_vars

(* the consumer thread is scheduled as long as it has something to do *)
FairSpec == Spec /\ WF_vars(Dispatcher)

(* the engine while Running, with the strategies as registered *)
RunningNext ==
  \/ Producer
  \/ Dispatcher
  \/ \E w \in Workers : Worker(w)
  \/ \E w \in Workers : RecordTrade(w)
  \/ ReadSnapshot

RunningSpec == Init /\ [][RunningNext]_vars

(* fair scheduling: the dispatcher and every worker get to run, the lock  *)
(* is granted to each waiter in turn, and whoever holds it goes on         *)
LiveSpec ==
  /\ RunningSpec
  /\ WF_vars(Dispatcher)
  /\ \A w \in Workers :
       /\ WF_vars(Worker(w))
       /\ SF_vars(RtAcquire(w))
       /\ WF_vars(RtUpdate(w) \/ RtAppend(w))
  /\ WF_vars(SnapRelease)

(* the engine driven from the dashboard: the live table's controls are the *)
(* only callers of the control endpoints                                   *)
DashboardNext ==
  \/ Producer
  \/ Dispatcher
  \/ \E w \in Workers : Worker(w)
  \/ \E w \in Workers : RecordTrade(w)
  \/ Dashboard
  \/ ShutdownComplete
  \/ ShutdownTimeout

DashboardSpec == Init /\ [][DashboardNext]_vars

(* the engine under its whole control surface *)
ControlNext ==
  \/ Producer
  \/ Dispatcher
  \/ \E w \in Workers : Worker(w)
  \/ \E w \in Workers : RecordTrade(w)
  \/ ControlSurface
  \/ ShutdownComplete
  \/ ShutdownTimeout

ControlSpec == Init /\ [][ControlNext]_vars

(* the engine through its life: started, fed by a source that may fail,    *)
(* stopped and started again; the set of strategies stays as registered    *)
LifecycleNext ==
  \/ Producer
  \/ Source
  \/ Dispatcher
  \/ \E w \in Workers : Worker(w)
  \/ \E w \in Workers : RecordTrade(w)
  \/ ReadSnapshot
  \/ Lifecycle

LifecycleSpec == Init /\ [][LifecycleNext]_vars

(* the live dashboard's socket beside the ingestion pipeline *)
HookNext ==
  \/ UseWebSocket
  \/ Producer

HookSpec == Init /\ [][HookNext]_vars

(* timers fire and delivered events are handled; closes and the unmount    *)
(* are up to the environment                                               *)
HookFairSpec ==
  /\ HookSpec
  /\ WF_vars(HookOpens)
  /\ WF_vars(HookOnMessage)
  /\ WF_vars(HookTimerFires)

(* the provider's connection through closes, reconnects and the unmount *)
ProviderSpec == Init /\ [][WebSocketProvider]_vars

(* the provider with its subscribers and the events of the server *)
ListenerNext ==
  \/ WebSocketProvider
  \/ Subscribers
  \/ UseWsMessages

ListenerSpec == Init /\ [][ListenerNext]_vars

(* the trade history view on a connection that stays up *)
HistoryNext ==
  \/ \E i \in 1..Len(sockets) : ProviderOpens(i)
  \/ \E k \in MessageKinds : ServerBroadcast(k)
  \/ \E i \in 1..Len(sockets) : ProviderOnMessage(i)
  \/ UseWsMessages
  \/ FetchInitialTrades

HistorySpec == Init /\ [][HistoryNext]_vars

(* the optimization view with overlapping uploads *)
UploadSpec == Init /\ [][OptimizationDashboard]_vars

(***************************************************************************)
(* Properties of the shared state store.                                   *)
(***************************************************************************)
InRecordTrade(w) == pc[w] \in {"rtAcquire", "rtUpdate", "rtAppend"}
HoldsLock(w) == pc[w] \in {"rtUpdate", "rtAppend"}
Uncounted(w) == pc[w] \in {"rtAcquire", "rtUpdate"}

(* C1: no lost updates. Of the recordTrade calls made so far, each one that *)
(* has completed has left exactly one TradeRecord and added exactly one to  *)
(* GlobalMetrics.totalTrades, whatever the interleaving of the workers; so  *)
(* once all T calls have completed there are exactly T TradeRecords and     *)
(* totalTrades is exactly T.                                               *)
C1_NoLostUpdates ==
  /\ Len(trades) + Cardinality({w \in Workers : InRecordTrade(w)}) = recordCalls
  /\ global.totalTrades + Cardinality({w \in Workers : Uncounted(w)}) = recordCalls
  /\ (\A w \in Workers : ~InRecordTrade(w)) =>
       Len(trades) = recordCalls /\ global.totalTrades = recordCalls

(* two workers are in recordTrade at once: one holds the lock, the other    *)
(* waits for it                                                            *)
C1_Witness ==
  \E w, v \in Workers : w # v /\ HoldsLock(w) /\ pc[v] = "rtAcquire"

NetIsProfitMinusLoss(m) == m.netPnL = m.grossProfit - m.grossLoss

(* C2: in every reachable state GlobalMetrics and every StrategyMetrics    *)
(* satisfy netPnL = grossProfit - grossLoss.                               *)
C2_NetPnLIdentity ==
  /\ NetIsProfitMinusLoss(global)
  /\ \A s \in StrategyIds : NetIsProfitMinusLoss(strat[s])

(* a position was closed below its entry price *)
C2_Witness ==
  /\ global.grossLoss > 0
  /\ global.netPnL < 0
  /\ \E s \in StrategyIds : strat[s].grossLoss > 0

TotalIsWinsPlusLosses(m) == m.totalTrades = m.winningTrades + m.losingTrades

StrategyTotals == [s \in StrategyIds |-> strat[s].totalTrades]

(* C4: in every reachable state GlobalMetrics.totalTrades equals the sum   *)
(* of totalTrades over the StrategyMetrics the store holds, also after an  *)
(* unregistration followed by a re-registration.                           *)
C4_GlobalIsSumOfStrategies ==
  global.totalTrades = SumOver(StrategyTotals, StrategyIds)

(* C5: recordTrade executions exclude each other and the snapshot reader,  *)
(* and the copy a readSnapshot returns shows every trade either with all   *)
(* of its effects (position, both metrics, TradeRecord) or with none.      *)
C5_SnapshotAtomic ==
  /\ Cardinality({w \in Workers : HoldsLock(w)})
       + (IF snapPc = "copied" THEN 1 ELSE 0) <= 1
  /\ snapPc = "copied" =>
       /\ snap = StoreView
       /\ snap.global.totalTrades = Len(snap.trades)
       /\ \A w \in Workers : pc[w] # "rtAppend"

(* a snapshot of a store with a recorded trade is held while a worker      *)
(* waits to record the next one                                            *)
C5_Witness ==
  /\ snapPc = "copied"
  /\ Len(snap.trades) >= 1
  /\ \E w \in Workers : pc[w] = "rtAcquire"

(***************************************************************************)
(* Properties of the pipeline.                                             *)
(***************************************************************************)
(* C6: backpressure. The queue never holds more than QueueCapacity ticks;  *)
(* a push on a full queue does not happen (the producer waits); no tick is *)
(* dropped: the queue holds exactly the ticks pushed and not yet taken, in *)
(* order, and every tick pushed is eventually taken by the dispatcher.     *)
C6_Backpressure ==
  /\ [](Len(queue) <= QueueCapacity)
  /\ [](/\ produced = popped + Len(queue)
        /\ \A i \in 1..Len(queue) : queue[i].timestamp = popped + i)
  /\ [][Len(queue) = QueueCapacity => produced' = produced]_vars
  /\ \A n \in 1..MaxTicks : (produced >= n) ~> (popped >= n)

(* the queue is full and the producer has more ticks to push *)
C6_Witness == Len(queue) = QueueCapacity /\ produced < MaxTicks

(* C7: ordering. The dispatcher takes the ticks in the order they were     *)
(* pushed (the n-th tick taken is the n-th tick pushed), and for every     *)
(* strategy the tasks are submitted in increasing tick order, each for the *)
(* tick being dispatched.                                                  *)
C7_Ordering ==
  [][/\ popped' # popped =>
          popped' = popped + 1 /\ dispTick'.timestamp = popped + 1
     /\ \A s \in StrategyIds :
          lastSubmitted'[s] # lastSubmitted[s] =>
            /\ lastSubmitted'[s] > lastSubmitted[s]
            /\ lastSubmitted'[s] = dispTick.timestamp
            /\ taskQ' = Append(taskQ, [strategyId |-> s, tick |-> dispTick])]_vars

(* tasks of one strategy for two ticks wait in the pool, the earlier tick  *)
(* first, while a third tick is still queued                               *)
C7_Witness ==
  /\ \E i, j \in 1..Len(taskQ) :
       /\ i < j
       /\ taskQ[i].strategyId = taskQ[j].strategyId
       /\ taskQ[i].tick.timestamp < taskQ[j].tick.timestamp
  /\ Len(queue) >= 1

C9_Isolation ==
  [][/\ \A w \in Workers :
          (pc[w] = "failed" /\ pc'[w] # pc[w]) =>
            /\ errorCount' = [errorCount EXCEPT ![task[w].strategyId] = @ + 1]
            /\ UNCHANGED <<position, global, strat, trades, taskQ, lock>>
            /\ pc'[w] = "idle"
            /\ \A v \in Workers \ {w} :
                 pc'[v] = pc[v] /\ task'[v] = task[v] /\ loc'[v] = loc[v]
     /\ errorCount' # errorCount =>
          \E w \in Workers : pc[w] = "failed" /\ pc'[w] = "idle"]_vars

(* BTC_SMA has failed once and recorded nothing; BTC_Momentum, evaluated   *)
(* on the same tick, has its trade recorded                                *)
C9_Witness ==
  /\ errorCount["BTC_SMA"] = 1
  /\ errorCount["BTC_Momentum"] = 0
  /\ strat["BTC_SMA"].totalTrades = 0
  /\ \E i \in 1..Len(trades) :
       trades[i].strategyId = "BTC_Momentum" /\ trades[i].timestamp = 1

C11_PauseKeepsMetrics ==
  [][\A s \in StrategyIds :
       (\/ s \in ControlledIds /\ rowStatus'[s] # rowStatus[s]
        \/ registry[s] = "Active" /\ registry'[s] = "Paused"
        \/ registry[s] = "Paused" /\ registry'[s] = "Active") =>
         /\ strat'[s] = strat[s]
         /\ position'[s] = position[s]]_vars
(* C12: re-registration. When an unregistered (instrument, strategy) pair  *)
(* is registered again, the new instance's metrics are all zero and the    *)
(* trade history is left as it was; no step ever removes or alters a       *)
(* TradeRecord, so the records made before the unregistration stay.        *)
C12_ReRegistration ==
  [][/\ \A s \in StrategyIds :
          (registry[s] = "Unregistered" /\ registry'[s] = "Active") =>
            /\ \A f \in DOMAIN strat'[s] : strat'[s][f] = 0
            /\ trades' = trades
     /\ Len(trades') >= Len(trades)
     /\ SubSeq(trades', 1, Len(trades)) = trades]_vars

(* BTC_SMA is registered again after a trade: its metrics are zero and its *)
(* TradeRecord is still in the history                                     *)
C12_Witness ==
  /\ registry["BTC_SMA"] = "Active"
  /\ strat["BTC_SMA"] = ZeroMetrics
  /\ \E i \in 1..Len(trades) : trades[i].strategyId = "BTC_SMA"
  /\ \A w \in Workers : pc[w] = "idle"
(* C13: registration state machine. A registration creates the instance in *)
(* Active; a status changes only Active <-> Paused, Active or Paused ->     *)
(* Unregistered, or Unregistered -> Active by a registration; an            *)
(* unregisterStrategy on an id that is neither Active nor Paused is         *)
(* rejected and changes nothing; once an instance is unregistered no        *)
(* evaluation task is submitted for it any more, and the TradeRecords it    *)
(* produced stay in the store.                                              *)
C13_RegistrationStateMachine ==
  [][\A s \in StrategyIds :
       /\ registry[s] = "Unregistered" => registry'[s] \in {"Unregistered", "Active"}
       /\ registry[s] = "Active" => registry'[s] \in {"Active", "Paused", "Unregistered"}
       /\ registry[s] = "Paused" => registry'[s] \in {"Paused", "Active", "Unregistered"}
       /\ registry[s] = "Unregistered" =>
            /\ UnregisterResult(s) = "not_found"
            /\ ServeUnregister(s) => UNCHANGED vars
       /\ (registry[s] = "Unregistered" /\ Len(taskQ') > Len(taskQ)) =>
            taskQ'[Len(taskQ')].strategyId # s
       /\ registry'[s] = "Unregistered" =>
            \A i \in 1..Len(trades) :
              trades[i].strategyId = s => (i <= Len(trades') /\ trades'[i] = trades[i])]_vars
(***************************************************************************)
(* Properties of the engine lifecycle.                                     *)
(***************************************************************************)
(* C14: graceful shutdown. Once stop() has been called the producer        *)
(* enqueues no tick; the shutdown completes only in a state where the      *)
(* queue is empty and no evaluation is submitted, running or waiting to be *)
(* applied (each was applied completely or abandoned at the timeout), with *)
(* every trade applied as a whole (metrics and TradeRecord agree); and     *)
(* while the engine is Stopped nothing is recorded.                        *)
C14_GracefulShutdown ==
  [][/\ engine # "Running" => (produced' = produced /\ Len(queue') <= Len(queue))
     /\ engine' = "Stopped" =>
          /\ queue' = <<>> /\ dispPending' = {} /\ taskQ' = <<>>
          /\ \A w \in Workers : pc'[w] = "idle" /\ lock' # w
          /\ global'.totalTrades = Len(trades')
          /\ SumOver([s \in StrategyIds |-> strat'[s].totalTrades], StrategyIds) = Len(trades')
     /\ engine = "Stopped" => UNCHANGED storeVars]_vars

(* the engine was stopped before the source was exhausted: every tick      *)
(* pushed has been dispatched and a trade has been recorded                *)
C14_Witness ==
  /\ engine = "Stopped"
  /\ produced < MaxTicks
  /\ popped = produced
  /\ Len(trades) >= 1
(***************************************************************************)
(* Properties of the scheduling.                                           *)
(***************************************************************************)
WorkLeft ==
  \/ queue # <<>>
  \/ dispPending # {}
  \/ taskQ # <<>>
  \/ \E w \in Workers : pc[w] # "idle"

(* C15: no deadlock. In every reachable state in which a tick is queued or *)
(* being dispatched, a task is waiting or a result is still to be          *)
(* recorded, the dispatcher, a worker, a recordTrade or the holder of the  *)
(* snapshot can take a step: they are never all blocked, whatever the      *)
(* producer can do.                                                        *)
C15_NoDeadlock ==
  WorkLeft =>
    ENABLED (\/ Dispatcher
             \/ \E w \in Workers : Worker(w)
             \/ \E w \in Workers : RecordTrade(w)
             \/ SnapRelease)

(* the queue is full and a result waits for the lock while another        *)
(* recordTrade holds it                                                    *)
C15_Witness ==
  /\ Len(queue) = QueueCapacity
  /\ \E w, v \in Workers : pc[w] = "rtAcquire" /\ lock = v
ControlResults ==
  {StartResult, StopResult} \cup
  UNION {{RegisterResult(s), UnregisterResult(s)} : s \in StrategyIds}

(* C18: failures are values. In every reachable state a start, stop,       *)
(* register or unregister call is answered with a result value; a call     *)
(* that is not applicable, and a call whose request fails, leave the       *)
(* engine state unchanged; and the frontend API client resolves every such *)
(* call to the response body or to null: it never rejects.                 *)
C18_FailuresAreValues ==
  /\ StartResult \in {"success", "not_stopped"}
  /\ StopResult \in {"success", "not_running"}
  /\ StartResult # "success" => ~ENABLED <<ServeStart /\ UNCHANGED rowStatus>>_vars
  /\ StopResult # "success" => ~ENABLED <<ServeStop /\ UNCHANGED rowStatus>>_vars
  /\ \A s \in StrategyIds :
       /\ RegisterResult(s) \in {"success", "already_registered"}
       /\ UnregisterResult(s) \in {"success", "not_found"}
       /\ RegisterResult(s) # "success" =>
            ~ENABLED <<ServeRegister(s) /\ UNCHANGED rowStatus>>_vars
       /\ UnregisterResult(s) # "success" =>
            ~ENABLED <<ServeUnregister(s) /\ UNCHANGED rowStatus>>_vars
  /\ \A s \in ControlledIds : ~ENABLED <<ToggleStrategy(s, "failed")>>_serverVars
  /\ ~ENABLED <<HandlePauseAll("failed")>>_serverVars
  /\ ~ENABLED <<HandleStartAll("failed")>>_serverVars
  /\ \A o \in FetchOutcomes, body \in ControlResults :
       /\ ApiCall(o, body) \in {body, Null}
       /\ ApiCall(o, body) # Rejects
       /\ o = "delivered" => ApiCall(o, body) = body

(* a request of the dashboard failed or was answered with an unreadable    *)
(* body: BTC_SMA's row shows PAUSED while the engine runs and the instance *)
(* is Active                                                               *)
C18_Witness ==
  /\ engine = "Running"
  /\ rowStatus["BTC_SMA"] = "PAUSED"
  /\ registry["BTC_SMA"] = "Active"
  /\ Len(trades) >= 1
IsSuffix(q, r) ==
  /\ Len(q) <= Len(r)
  /\ q = SubSeq(r, Len(r) - Len(q) + 1, Len(r))

(* C19: source failures. A failing read is retried at most MaxRetries      *)
(* times; the engine enters Error only when the last retry has failed, and *)
(* the status it reports is then Error; in Error nothing is pushed and the *)
(* state is final; and a failed read leaves the queue exactly as it was:   *)
(* ticks leave the queue only at its head, taken by the dispatcher.        *)
C19_SourceFailure ==
  [][/\ retries <= MaxRetries /\ retries' <= MaxRetries
     /\ (retries' > retries \/ (engine' = "Error" /\ engine # "Error")) =>
          (queue' = queue /\ produced' = produced /\ popped' = popped)
     /\ (engine' = "Error" /\ engine # "Error") =>
          (retries = MaxRetries /\ EngineStatus' = "Error")
     /\ engine = "Error" =>
          /\ engine' = "Error"
          /\ EngineStatus = "Error"
          /\ produced' = produced
          /\ IsSuffix(queue', queue)]_vars

(* the source has failed for good while ticks pushed before are still      *)
(* queued                                                                  *)
C19_Witness ==
  /\ engine = "Error"
  /\ retries = MaxRetries
  /\ Len(queue) >= 1
  /\ popped >= 1
(***************************************************************************)
(* Properties of the trade accounting.                                     *)
(***************************************************************************)
(* strategy s has traded exactly twice: it bought on one tick and sold the *)
(* same quantity on a later tick, and both trades are recorded             *)
BoughtThenSold(s, i, j) ==
  /\ trades[i].strategyId = s /\ trades[j].strategyId = s
  /\ trades[i].action = "Buy" /\ trades[j].action = "Sell"
  /\ trades[i].timestamp < trades[j].timestamp
  /\ trades[i].quantity = trades[j].quantity
  /\ strat[s].totalTrades = 2

PairPnL ==
  \A s \in StrategyIds : \A i, j \in 1..Len(trades) :
    BoughtThenSold(s, i, j) =>
      /\ trades[j].realizedPnL = (trades[j].price - trades[i].price) * trades[j].quantity
      /\ global.totalTrades >= 2

(* C20: realized P&L. With two strategies registered on one instrument     *)
(* every tick of that instrument yields exactly two evaluations, one per   *)
(* strategy; and when a strategy buys quantity q at price p1 on one tick   *)
(* and sells q at price p2 on a later tick, the sell's TradeRecord carries *)
(* realizedPnL = (p2 - p1) * q under that strategy's id, with both trades  *)
(* counted in GlobalMetrics.totalTrades.                                   *)
C20_RealizedPnL ==
  [][/\ (popped' # popped /\ dispTick'.instrumentId = "BTC") =>
          dispPending' = {s \in StrategyIds : InstrumentOf(s) = "BTC"}
     /\ PairPnL']_vars

(***************************************************************************)
(* Properties of the frontend sockets.                                     *)
(***************************************************************************)
HookConnected == hook.readyState \in {"CONNECTING", "OPEN"}

(* C21: whenever the socket of useWebSocket closes while the hook is still *)
(* mounted, a new connection to the url is eventually opened (or the hook  *)
(* unmounts first).                                                        *)
C21_Reconnects ==
  (hook.mounted /\ hook.readyState = "CLOSED") ~> (HookConnected \/ ~hook.mounted)

RECURSIVE Pow2(_)
Pow2(k) == IF k = 0 THEN 1 ELSE 2 * Pow2(k - 1)

ClosedSockets == {i \in 1..Len(sockets) : sockets[i].readyState = "CLOSED"}

(* C22: while the provider is mounted every socket close schedules exactly *)
(* one reconnect; the delay of the k-th consecutive attempt since the last *)
(* successful open is min(30000, 1000 * 2^k) ms, never above 30000, and an *)
(* open starts the sequence again.                                         *)
C22_Backoff ==
  [][ /\ (provider.mounted /\ ClosedSockets' # ClosedSockets) =>
           /\ Cardinality(ClosedSockets') = Cardinality(ClosedSockets) + 1
           /\ Len(provider'.timers) = Len(provider.timers) + 1
           /\ provider'.timers[Len(provider'.timers)]
                = Min(30000, 1000 * Pow2(provider'.attempts))
           /\ provider'.timers[Len(provider'.timers)] <= 30000
      /\ (\E i \in 1..Len(sockets) :
             sockets[i].readyState = "CONNECTING" /\ sockets'[i].readyState = "OPEN")
           => provider'.attempts = 0 /\ provider'.reconnectRef = 0
      /\ ClosedSockets' = ClosedSockets => Len(provider'.timers) <= Len(provider.timers)
    ]_vars

C22_Witness ==
  /\ provider.mounted
  /\ provider.attempts = 5
  /\ provider.timers = <<30000>>

(* C23: once the provider has unmounted it creates no WebSocket any more.  *)
C23_NoSocketAfterUnmount ==
  [][~provider.mounted => Len(sockets') = Len(sockets)]_vars

AliveSockets == {i \in 1..Len(sockets) : Alive(sockets[i])}
NoDuplicates(q) == \A a, b \in 1..Len(q) : q[a] = q[b] => a = b

(* C24: at most one socket of the provider is connecting or open at any    *)
(* moment, and no listener is called twice with the same server event.     *)
C24_OneSocket ==
  /\ Cardinality(AliveSockets) <= 1
  /\ \A fn \in Functions : NoDuplicates(got[fn])

C24_Witness ==
  /\ Len(sockets) >= 3
  /\ Cardinality(ClosedSockets) >= 2
  /\ \E fn \in Functions : Len(got[fn]) >= 2

CurrentOpen ==
  /\ provider.wsRef # 0
  /\ sockets[provider.wsRef].readyState = "OPEN"

(* C25: while the provider is mounted, connected is true only if the       *)
(* current socket is open, it turns true only at the open of the current   *)
(* socket, and it is false whenever a reconnect is pending.                *)
C25_ConnectedFlag ==
  /\ [](provider.mounted =>
          /\ provider.connected => CurrentOpen
          /\ provider.timers # <<>> => ~provider.connected)
  /\ [][(provider'.mounted /\ provider'.connected /\ ~provider.connected) =>
          /\ sockets[provider.wsRef].readyState = "CONNECTING"
          /\ sockets'[provider.wsRef].readyState = "OPEN"]_vars

C25_Witness ==
  /\ provider.mounted
  /\ ~provider.connected
  /\ provider.timers # <<>>
  /\ provider.attempts = 1
  /\ Len(sockets) = 2

(* the step is the handling of the first event waiting on socket i *)
Handles(i) ==
  /\ i <= Len(sockets)
  /\ sockets[i].readyState = "OPEN"
  /\ sockets'[i].readyState = "OPEN"
  /\ sockets[i].inbox # <<>>
  /\ sockets'[i].inbox = Tail(sockets[i].inbox)

(* C26: for a parsed event every registered listener is called exactly     *)
(* once, also when another listener throws; an event that does not parse   *)
(* reaches no listener, and the events after it are still delivered.       *)
C26_ListenerIsolation ==
  [][\A i \in 1..MaxSockets :
       (Handles(i) /\ provider.mounted) =>
          LET msg == Head(sockets[i].inbox)
          IN  /\ msg.kind = "json" =>
                   \A fn \in Functions :
                      got'[fn] = IF InSeq(fn, listeners)
                                 THEN Append(got[fn], msg.id) ELSE got[fn]
              /\ msg.kind = "garbage" => got' = got
    ]_vars

C26_Witness ==
  \E h \in Handlers :
     /\ listeners = <<Other, h>>
     /\ got[h] # <<>>
     /\ got[Other] # <<>>
     /\ got[h][Len(got[h])] = got[Other][Len(got[Other])]
     /\ sent >= 2

OwnListeners == {k \in 1..Len(listeners) : listeners[k] \in Handlers}

(* C27: a function receives events only while it is registered; the trade  *)
(* history view has exactly one listener registered while it is mounted,   *)
(* the handler of its last render, and none after it has unmounted.        *)
C27_Subscription ==
  /\ [](IF component.mounted
        THEN /\ Cardinality(OwnListeners) = 1
             /\ InSeq(component.handler, listeners)
        ELSE OwnListeners = {})
  /\ [][\A fn \in Functions : got'[fn] # got[fn] => InSeq(fn, listeners)]_vars

C27_Witness ==
  /\ component.mounted
  /\ component.renders = 2
  /\ got[1] # <<>>
  /\ got[2] # <<>>

Count(x, q) == Cardinality({k \in 1..Len(q) : q[k] = x})

(* C28: every trade event the mounted trade history view has received is   *)
(* in its trades list exactly once, and the list is newest first.          *)
C28_TradesOnce ==
  component.mounted =>
     /\ \A id \in component.seen : Count(id, component.trades) = 1
     /\ \A a, b \in 1..Len(component.trades) :
           a < b => component.trades[a] > component.trades[b]

(***************************************************************************)
(* Properties of the dashboard views.                                      *)
(***************************************************************************)
(* C29: the status of a live-table row changes only in a step in which the *)
(* backend carried out the request behind it (a strategy registered or     *)
(* unregistered, the engine started or stopped); a request that fails      *)
(* leaves the rows as they are.                                            *)
C29_RowsFollowBackend ==
  [][rowStatus' # rowStatus => (registry' # registry \/ engine' # engine)]_vars

(* C30: whenever isFileUploaded is true, fileName names a file whose       *)
(* upload succeeded, for every completion order of overlapping uploads.    *)
C30_UploadState ==
  upload.isFileUploaded => upload.fileName \in upload.succeeded

====
